---- MODULE Spec2Model ----
(***************************************************************************)
(* Model of src/server/wayland.rs: the Wayland capture-state cache         *)
(* (CAP_DISPLAY_INFO, check_init, clear, the read accessors), the          *)
(* clonable capturer pointer, the scrap error classifier map_err_scrap     *)
(* and its rate-limited logger try_log.                                    *)
(*                                                                         *)
(* Strings are sequences of byte values, so that to_uppercase, the         *)
(* lexicographic comparison and contains are computed as the code does.    *)
(* Indices (primary, current) are 0-based as in the code; addresses and    *)
(* device pointers are positive, 0 is the null address.                    *)
(***************************************************************************)
EXTENDS Integers, Sequences, FiniteSets, TLC

\* ------------------------------------------------------------ bounds
NThreads == 2
MaxOps == 3
MaxErrCalls == 2
LogSlack == 2

\* ------------------------------------------------- program constants
\* "Wayland requires Ubuntu 21.04 or higher version."
SCRAP_UBUNTU_HIGHER_REQUIRED ==
    <<87, 97, 121, 108, 97, 110, 100, 32, 114, 101, 113, 117, 105, 114, 101,
    115, 32, 85, 98, 117, 110, 116, 117, 32, 50, 49, 46, 48, 52, 32, 111,
    114, 32, 104, 105, 103, 104, 101, 114, 32, 118, 101, 114, 115, 105, 111,
    110, 46>>
\* "Wayland requires higher version of linux distro. Please try X11 desktop or change your OS."
SCRAP_OTHER_VERSION_OR_X11_REQUIRED ==
    <<87, 97, 121, 108, 97, 110, 100, 32, 114, 101, 113, 117, 105, 114, 101,
    115, 32, 104, 105, 103, 104, 101, 114, 32, 118, 101, 114, 115, 105, 111,
    110, 32, 111, 102, 32, 108, 105, 110, 117, 120, 32, 100, 105, 115, 116,
    114, 111, 46, 32, 80, 108, 101, 97, 115, 101, 32, 116, 114, 121, 32, 88,
    49, 49, 32, 100, 101, 115, 107, 116, 111, 112, 32, 111, 114, 32, 99,
    104, 97, 110, 103, 101, 32, 121, 111, 117, 114, 32, 79, 83, 46>>
\* "X11 is required"
SCRAP_X11_REQUIRED ==
    <<88, 49, 49, 32, 105, 115, 32, 114, 101, 113, 117, 105, 114, 101, 100>>
\* "Ubuntu"
StrUbuntu ==
    <<85, 98, 117, 110, 116, 117>>
\* "21"
Str21 ==
    <<50, 49>>
\* "org.freedesktop.portal"
StrPortal ==
    <<111, 114, 103, 46, 102, 114, 101, 101, 100, 101, 115, 107, 116, 111,
    112, 46, 112, 111, 114, 116, 97, 108>>
\* "pipewire"
StrPipewire ==
    <<112, 105, 112, 101, 119, 105, 114, 101>>
\* "dbus"
StrDbus ==
    <<100, 98, 117, 115>>
\* try_log: no line and no increment once the counter has reached this value
LOG_CEILING == 1000000
\* try_log: a line is emitted when the counter is a multiple of this value
LOG_PERIOD == 10000

\* ------------------------------------------------------ input domains
\* DISTRO.name: "Ubuntu", "ubuntu", "UBUNTU", "Fedora", "Kubuntu"
DistroNames ==
    { <<85, 98, 117, 110, 116, 117>>,
      <<117, 98, 117, 110, 116, 117>>,
      <<85, 66, 85, 78, 84, 85>>,
      <<70, 101, 100, 111, 114, 97>>,
      <<75, 117, 98, 117, 110, 116, 117>> }
\* DISTRO.version_id: "20.04", "22.04", "21", "9", "100", "2", "36", ""
DistroVersions ==
    { <<50, 48, 46, 48, 52>>,
      <<50, 50, 46, 48, 52>>,
      <<50, 49>>,
      <<57>>,
      <<49, 48, 48>>,
      <<50>>,
      <<51, 54>>,
      <<>> }
\* raw messages: "anything", "boom", "pipewire timeout", "unknown", "dbus",
\* "Pipewire", "x org.freedesktop.portal", ""
ErrMessages ==
    { <<97, 110, 121, 116, 104, 105, 110, 103>>,
      <<98, 111, 111, 109>>,
      <<112, 105, 112, 101, 119, 105, 114, 101, 32, 116, 105, 109, 101, 111, 117, 116>>,
      <<117, 110, 107, 110, 111, 119, 110>>,
      <<100, 98, 117, 115>>,
      <<80, 105, 112, 101, 119, 105, 114, 101>>,
      <<120, 32, 111, 114, 103, 46, 102, 114, 101, 101, 100, 101, 115, 107, 116, 111, 112, 46, 112, 111, 114, 116, 97, 108>>,
      <<>> }
\* the distribution the cache and logger specifications run on: Fedora 36
DefaultDistro ==
    [name |-> <<70, 101, 100, 111, 114, 97>>, version_id |-> <<51, 54>>]

\* ---------------------------------------------------- string helpers
\* char::to_uppercase on an ASCII byte
ToUpperByte(c) ==
    IF c >= 97 /\ c <= 122 THEN c - 32 ELSE c

\* str::to_uppercase
ToUppercase(s) ==
    [i \in 1..Len(s) |-> ToUpperByte(s[i])]

\* String's `<`: byte-wise lexicographic order, a proper prefix is smaller
StrLess(a, b) ==
    \E i \in 1..(Len(b)) :
        /\ \A j \in 1..(i - 1) : j <= Len(a) /\ a[j] = b[j]
        /\ \/ i = Len(a) + 1
           \/ i <= Len(a) /\ a[i] < b[i]

\* str::contains(pattern)
Contains(s, pat) ==
    \E i \in 0..(Len(s) - Len(pat)) : SubSeq(s, i + 1, i + Len(pat)) = pat

\* ------------------------------------------------------------- state
VARIABLES
    x11,        \* what scrap::is_x11() answered when it was last called
    cap,        \* CAP_DISPLAY_INFO: 0 or the address of a CapDisplayInfo
    rw,         \* the RwLock around CAP_DISPLAY_INFO: its writer and readers
    boxes,      \* the heap of CapDisplayInfo boxes, by address
    devs,       \* the heap of Capturer boxes, by pointer: "live" or "released"
    th,         \* per thread: position in its call and the call's locals
    ret,        \* per thread: what its last call returned
    enumCount,  \* number of Display::all calls
    fails,      \* number of failed Display::all / get_current_display_2 / Capturer::new
    releases,   \* number of CapDisplayInfo released by clear
    uinput,     \* the calls made to input_service, in order
    ops,        \* number of calls started
    distro,     \* hbb_common::platform::linux::DISTRO
    registered, \* number of set_map_err(map_err_scrap) calls made
    mapped,     \* the last map_err_scrap call: its argument and its result
    logLock,    \* the Mutex around LOG_SCRAP_COUNT: its holder, 0 when free
    logCount,   \* LOG_SCRAP_COUNT
    logCalls,   \* number of try_log calls
    logLines,   \* number of log::error! lines try_log has emitted
    logEmit     \* whether the last try_log call emitted a line

cacheVars == <<x11, cap, rw, boxes, devs, th, ret, enumCount, fails,
               releases, uinput, ops>>
logVars == <<logCount, logCalls, logLines, logEmit>>
errVars == <<distro, mapped, registered>>
vars == <<cacheVars, logVars, errVars, logLock>>

\* --------------------------------------------------- try_log (42-51)
\* a try_log call past the ceiling check that still counts and may emit
TryLogNoCeiling ==
    /\ logCalls' = logCalls + 1
    /\ logEmit' = (logCount % LOG_PERIOD = 0)
    /\ logLines' = logLines + (IF logCount % LOG_PERIOD = 0 THEN 1 ELSE 0)
    /\ logCount' = logCount + 1

\* a try_log call that emits a line one call too early in each period
TryLogEarly ==
    /\ logCalls' = logCalls + 1
    /\ IF logCount >= LOG_CEILING
          THEN /\ logEmit' = FALSE
               /\ UNCHANGED <<logCount, logLines>>
          ELSE /\ logEmit' = ((logCount + 1) % LOG_PERIOD = 0)
               /\ logLines' = logLines + (IF (logCount + 1) % LOG_PERIOD = 0 THEN 1 ELSE 0)
               /\ logCount' = logCount + 1

\* fn try_log(err), from the lock of line 43 to the drop of the guard: under
\* the LOG_SCRAP_COUNT mutex, hence one step.  The u32 counter stops at
\* LOG_CEILING, far below 2^32: `+= 1` never wraps.
TryLog ==
    /\ logCalls' = logCalls + 1
    /\ IF logCount >= LOG_CEILING
          THEN /\ logEmit' = FALSE
               /\ UNCHANGED <<logCount, logLines>>
          ELSE /\ logEmit' = (logCount % LOG_PERIOD = 0)
               /\ logLines' = logLines + (IF logCount % LOG_PERIOD = 0 THEN 1 ELSE 0)
               /\ logCount' = logCount + 1

\* a caller of try_log
TryLogCall ==
    /\ logCalls < LOG_CEILING + LogSlack
    /\ TryLog
    /\ UNCHANGED <<cacheVars, errVars, logLock>>

\* --------------------------------------------- map_err_scrap (21-40)
\* DISTRO.name.to_uppercase() == "Ubuntu".to_uppercase()
IsUbuntu(d) ==
    ToUppercase(d.name) = ToUppercase(StrUbuntu)

\* DISTRO.version_id < "21".to_owned()
BelowMinVersion(d) ==
    StrLess(d.version_id, Str21)

\* a classifier that compares the distro name case-sensitively
MapErrScrapCaseSensitive(d, err) ==
    IF d.name = StrUbuntu
       THEN IF BelowMinVersion(d) THEN SCRAP_UBUNTU_HIGHER_REQUIRED ELSE err
       ELSE IF \/ Contains(err, StrPortal)
               \/ Contains(err, StrPipewire)
               \/ Contains(err, StrDbus)
               THEN SCRAP_OTHER_VERSION_OR_X11_REQUIRED
               ELSE SCRAP_X11_REQUIRED

\* the message of the io::Error map_err_scrap(err) returns
MapErrScrapText(d, err) ==
    IF IsUbuntu(d)
       THEN IF BelowMinVersion(d) THEN SCRAP_UBUNTU_HIGHER_REQUIRED ELSE err
       ELSE IF \/ Contains(err, StrPortal)
               \/ Contains(err, StrPipewire)
               \/ Contains(err, StrDbus)
               THEN SCRAP_OTHER_VERSION_OR_X11_REQUIRED
               ELSE SCRAP_X11_REQUIRED

\* whether map_err_scrap calls try_log: on every path but the first
MapErrScrapLogs(d) ==
    ~(IsUbuntu(d) /\ BelowMinVersion(d))

\* pub fn map_err_scrap(err: String) -> io::Error
MapErrScrap(err) ==
    /\ mapped' = [called |-> TRUE, err |-> err, out |-> MapErrScrapText(distro, err)]
    /\ IF MapErrScrapLogs(distro) THEN TryLog ELSE UNCHANGED logVars
    /\ UNCHANGED <<distro, registered>>

\* a caller of map_err_scrap (the function is pub)
MapErrScrapCall ==
    /\ logCalls < MaxErrCalls
    /\ \E err \in ErrMessages : MapErrScrap(err)
    /\ UNCHANGED <<cacheVars, logLock>>

\* ------------------------------------------------- the capture cache
Threads == 1..NThreads

\* what Display::all() can return: no display, one display of size 0x0,
\* two displays side by side away from the origin, the second of height 0
Topologies ==
    { <<>>,
      << [origin |-> <<0, 0>>, width |-> 0, height |-> 0] >>,
      << [origin |-> <<1, 2>>, width |-> 2, height |-> 1],
         [origin |-> <<3, 2>>, width |-> 1, height |-> 0] >> }

\* video_service::get_displays_2(&all), first component: the primary index,
\* an index of `all` (0 when there is no display).  No branch of this module
\* depends on the value: one representative per enumeration, the last display.
PrimaryChoices(all) ==
    IF all = <<>> THEN {0} ELSE {Len(all) - 1}

\* video_service::get_displays_2(&all), second component: one DisplayInfo per
\* display, in enumeration order
DisplayInfos(all) ==
    [i \in 1..Len(all) |->
        [x |-> all[i].origin[1], y |-> all[i].origin[2],
         width |-> all[i].width, height |-> all[i].height]]

\* video_service::get_current_display_2(all): the index it may select, an
\* index of `all`; with no display it fails
CurrentChoices(all) ==
    0..(Len(all) - 1)

\* a loop over the displays that leaves the last one out
RectsOfButLast(all) ==
    [i \in 1..(Len(all) - 1) |-> <<all[i].origin, all[i].width, all[i].height>>]

\* for d in &all { rects.push((d.origin(), d.width(), d.height())) }
RectsOf(all) ==
    [i \in 1..Len(all) |-> <<all[i].origin, all[i].width, all[i].height>>]

\* minx, maxx, miny, maxy of the current display (lines 115-118)
BoundsOf(d) ==
    <<d.origin[1], d.origin[1] + d.width, d.origin[2], d.origin[2] + d.height>>

\* let mut minx = 0; let mut maxx = 0; let mut miny = 0; let mut maxy = 0;
ZeroBounds ==
    <<0, 0, 0, 0>>

\* struct CapDisplayInfo, as built at lines 124-131
CapDisplayInfo(rects, displays, num, primary, current, capturer) ==
    [live |-> TRUE, rects |-> rects, displays |-> displays, num |-> num,
     primary |-> primary, current |-> current, capturer |-> capturer]

\* the memory of a CapDisplayInfo that Box::from_raw has dropped: not a
\* CapDisplayInfo any more
FreedBox ==
    [live |-> FALSE, rects |-> <<>>, displays |-> <<>>, num |-> 0,
     primary |-> 0, current |-> 0, capturer |-> 0]

\* what a read of freed memory may find there: the bytes of some earlier
\* CapDisplayInfo, whose capturer is any pointer handed out so far or null, or
\* other bytes
StaleBoxes ==
    { [live |-> FALSE, rects |-> RectsOf(all), displays |-> DisplayInfos(all),
       num |-> Len(all), primary |-> 0, current |-> 0, capturer |-> c] :
         all \in {a \in Topologies : Len(a) = 1}, c \in 0..Len(devs) }
    \cup
    { [live |-> FALSE, rects |-> << <<<<7, 7>>, 7, 7>> >>, displays |-> <<>>,
       num |-> 7, primary |-> 7, current |-> 0, capturer |-> 0] }

\* a Clone that boxes a second Capturer and returns the new pointer
CapturerPtrDeepClone(p) ==
    p + 1

\* impl Clone for CapturerPtr
CapturerPtrClone(p) ==
    p

\* a thread that is in no call
IdleThread ==
    [pc |-> "idle", op |-> "none", via |-> "none", addr |-> 0, all |-> <<>>,
     primary |-> 0, current |-> 0, capturer |-> 0, bounds |-> ZeroBounds,
     dropped |-> 0]

\* no call has returned yet
NoRet ==
    [op |-> "none", status |-> "none", via |-> "none", mem |-> "none", addr |-> 0,
     val |-> 0, from |-> "none"]

\* the lock with no holder
Unlocked ==
    [writer |-> 0, readers |-> {}]

\* RwLock::read() can return
CanRead ==
    rw.writer = 0

\* RwLock::write() can return
CanWrite ==
    rw.writer = 0 /\ rw.readers = {}

\* the process after start: nothing cached, no lock held, no call made, the
\* counter at 0
Init ==
    /\ x11 = FALSE
    /\ cap = 0
    /\ rw = Unlocked
    /\ boxes = <<>>
    /\ devs = <<>>
    /\ th = [t \in Threads |-> IdleThread]
    /\ ret = [t \in Threads |-> NoRet]
    /\ enumCount = 0
    /\ fails = 0
    /\ releases = 0
    /\ uinput = <<>>
    /\ ops = 0
    /\ logCount = 0
    /\ logCalls = 0
    /\ logLines = 0
    /\ logEmit = FALSE
    /\ distro = DefaultDistro
    /\ mapped = [called |-> FALSE, err |-> <<>>, out |-> <<>>]
    /\ registered = 0
    /\ logLock = 0

\* the thread returns from its call op; via is the path check_init took in it,
\* addr the address an accessor read and mem the state of the memory there
Return(t, op, via, mem, status, val) ==
    /\ th' = [th EXCEPT ![t] = IdleThread]
    /\ ret' = [ret EXCEPT ![t] = [op |-> op, status |-> status, via |-> via,
                                  mem |-> mem, addr |-> th[t].addr, val |-> val,
                                  from |-> "none"]]

\* thread t has made a call
Started(t) ==
    th[t].pc # "idle" \/ ret[t].op # "none"

\* a call starts; the callers are interchangeable and are numbered in the
\* order of their first call
Begin(t) ==
    /\ th[t].pc = "idle"
    /\ \A u \in Threads : u < t => Started(u)
    /\ ops < MaxOps
    /\ ops' = ops + 1

\* ------------------------------------------------ check_init (82-149)
\* Ok(()) at line 148: check_init returns, or get_displays goes on at line 168;
\* dropped is the number of errors allow_err! has logged and dropped in the call
CheckInitDone(t, op, via, dropped) ==
    IF op = "get_displays"
       THEN /\ th' = [th EXCEPT ![t] = [IdleThread EXCEPT !.pc = "acc_rlock",
                                                         !.op = op, !.via = via]]
            /\ ret' = [ret EXCEPT ![t] = NoRet]
       ELSE Return(t, op, via, "none", "Ok", dropped)

\* a test that forwards as soon as one axis is non-degenerate
AfterInitAnyAxis(t, via, b) ==
    IF b[1] # b[2] \/ b[3] # b[4]
       THEN /\ th' = [th EXCEPT ![t] = [IdleThread EXCEPT !.pc = "ci_uinput_res",
                                                         !.op = th[t].op, !.via = via,
                                                         !.bounds = b]]
            /\ UNCHANGED ret
       ELSE CheckInitDone(t, th[t].op, via, 0)

\* line 136: if minx != maxx && miny != maxy
AfterInit(t, via, b) ==
    IF b[1] # b[2] /\ b[3] # b[4]
       THEN /\ th' = [th EXCEPT ![t] = [IdleThread EXCEPT !.pc = "ci_uinput_res",
                                                         !.op = th[t].op, !.via = via,
                                                         !.bounds = b]]
            /\ UNCHANGED ret
       ELSE CheckInitDone(t, th[t].op, via, 0)

\* an error return that leaves the write guard behind
InitFailsKeepsLock(t, err) ==
    /\ rw' = rw
    /\ fails' = fails + 1
    /\ Return(t, th[t].op, "init", "none", "Err", err)

\* `?` inside the write-locked block: the guard is dropped, the error returned
InitFails(t, err) ==
    /\ rw' = Unlocked
    /\ fails' = fails + 1
    /\ Return(t, th[t].op, "init", "none", "Err", err)

\* line 83: if !scrap::is_x11(); on X11 straight to Ok(()) at line 148
CheckInitGate(t, op) ==
    /\ op \in {"check_init", "get_displays"}
    /\ Begin(t)
    /\ \E is_x11 \in BOOLEAN :
         /\ x11' = is_x11
         /\ IF is_x11
               THEN CheckInitDone(t, op, "x11", 0)
               ELSE /\ th' = [th EXCEPT ![t] = [IdleThread EXCEPT !.pc = "ci_rlock",
                                                                 !.op = op]]
                    /\ ret' = [ret EXCEPT ![t] = NoRet]
    /\ UNCHANGED <<cap, rw, boxes, devs, enumCount, fails, releases,
                   uinput>>
    /\ UNCHANGED <<logVars, errVars, logLock>>

\* line 89: CAP_DISPLAY_INFO.read()
CheckInitReadLock(t) ==
    /\ th[t].pc = "ci_rlock"
    /\ CanRead
    /\ rw' = [rw EXCEPT !.readers = @ \cup {t}]
    /\ th' = [th EXCEPT ![t].pc = "ci_fast"]
    /\ UNCHANGED <<x11, cap, boxes, devs, ret, enumCount, fails, releases,
                   uinput, ops>>
    /\ UNCHANGED <<logVars, errVars, logLock>>

\* a fast path whose read guard lives on into the block, as the scrutinee of an
\* `if let` would
CheckInitFastPathKeepsGuard(t) ==
    /\ th[t].pc = "ci_fast"
    /\ IF cap = 0
          THEN /\ th' = [th EXCEPT ![t].pc = "ci_wlock"]
               /\ UNCHANGED <<ret, rw>>
          ELSE /\ rw' = [rw EXCEPT !.readers = @ \ {t}]
               /\ AfterInit(t, "fast", ZeroBounds)
    /\ UNCHANGED <<x11, cap, boxes, devs, enumCount, fails, releases,
                   uinput, ops>>
    /\ UNCHANGED <<logVars, errVars, logLock>>

\* a fast path that takes the rectangle of the current display from the cached
\* state and forwards it again
CheckInitFastPathForwards(t) ==
    /\ th[t].pc = "ci_fast"
    /\ rw' = [rw EXCEPT !.readers = @ \ {t}]
    /\ IF cap = 0
          THEN /\ th' = [th EXCEPT ![t].pc = "ci_wlock"]
               /\ UNCHANGED ret
          ELSE LET r == boxes[cap].rects[boxes[cap].current + 1]
               IN  AfterInit(t, "fast", <<r[1][1], r[1][1] + r[2], r[1][2], r[1][2] + r[3]>>)
    /\ UNCHANGED <<x11, cap, boxes, devs, enumCount, fails, releases,
                   uinput, ops>>
    /\ UNCHANGED <<logVars, errVars, logLock>>

\* line 89: `*guard == 0`; the temporary read guard is dropped with the condition
CheckInitFastPath(t) ==
    /\ th[t].pc = "ci_fast"
    /\ rw' = [rw EXCEPT !.readers = @ \ {t}]
    /\ IF cap = 0
          THEN /\ th' = [th EXCEPT ![t].pc = "ci_wlock"]
               /\ UNCHANGED ret
          ELSE AfterInit(t, "fast", ZeroBounds)
    /\ UNCHANGED <<x11, cap, boxes, devs, enumCount, fails, releases,
                   uinput, ops>>
    /\ UNCHANGED <<logVars, errVars, logLock>>

\* line 90: CAP_DISPLAY_INFO.write()
CheckInitWriteLock(t) ==
    /\ th[t].pc = "ci_wlock"
    /\ CanWrite
    /\ rw' = [rw EXCEPT !.writer = t]
    /\ th' = [th EXCEPT ![t].pc = "ci_recheck"]
    /\ UNCHANGED <<x11, cap, boxes, devs, ret, enumCount, fails, releases,
                   uinput, ops>>
    /\ UNCHANGED <<logVars, errVars, logLock>>

\* a slow path without the re-check under the write lock
CheckInitNoRecheck(t) ==
    /\ th[t].pc = "ci_recheck"
    /\ th' = [th EXCEPT ![t].pc = "ci_enum"]
    /\ UNCHANGED <<x11, cap, rw, boxes, devs, ret, enumCount, fails, releases,
                   uinput, ops>>
    /\ UNCHANGED <<logVars, errVars, logLock>>

\* a slow path whose write guard is a temporary of the re-check and is dropped
\* with it, before the initialization
CheckInitRecheckDropsLock(t) ==
    /\ th[t].pc = "ci_recheck"
    /\ rw' = Unlocked
    /\ IF cap = 0
          THEN /\ th' = [th EXCEPT ![t].pc = "ci_enum"]
               /\ UNCHANGED ret
          ELSE AfterInit(t, "recheck", ZeroBounds)
    /\ UNCHANGED <<x11, cap, boxes, devs, enumCount, fails, releases,
                   uinput, ops>>
    /\ UNCHANGED <<logVars, errVars, logLock>>

\* line 91: if *lock == 0; otherwise the block ends and the guard is dropped
CheckInitRecheck(t) ==
    /\ th[t].pc = "ci_recheck"
    /\ IF cap = 0
          THEN /\ th' = [th EXCEPT ![t].pc = "ci_enum"]
               /\ UNCHANGED <<ret, rw>>
          ELSE /\ rw' = Unlocked
               /\ AfterInit(t, "recheck", ZeroBounds)
    /\ UNCHANGED <<x11, cap, boxes, devs, enumCount, fails, releases,
                   uinput, ops>>
    /\ UNCHANGED <<logVars, errVars, logLock>>

\* lines 92-99: Display::all()?, num, get_displays_2, rects
CheckInitEnumerate(t) ==
    /\ th[t].pc = "ci_enum"
    /\ enumCount' = enumCount + 1
    /\ \/ /\ InitFails(t, "Display::all")
          /\ UNCHANGED <<x11, cap, boxes, devs, releases, uinput, ops>>
       \/ \E all \in Topologies : \E primary \in PrimaryChoices(all) :
            /\ th' = [th EXCEPT ![t].pc = "ci_cur", ![t].all = all,
                                ![t].primary = primary]
            /\ UNCHANGED <<x11, cap, rw, boxes, devs, ret, fails, releases,
                           uinput, ops>>
    /\ UNCHANGED <<logVars, errVars, logLock>>

\* lines 101-118: get_current_display_2(all)?, then minx, maxx, miny, maxy
CheckInitCurrent(t) ==
    /\ th[t].pc = "ci_cur"
    /\ \/ /\ InitFails(t, "get_current_display_2")
          /\ UNCHANGED <<x11, cap, boxes, devs, enumCount, releases, uinput,
                         ops>>
       \/ \E c \in CurrentChoices(th[t].all) :
            /\ th' = [th EXCEPT ![t].pc = "ci_new", ![t].current = c,
                                ![t].bounds = BoundsOf(th[t].all[c + 1])]
            /\ UNCHANGED <<x11, cap, rw, boxes, devs, ret, enumCount, fails,
                           releases, uinput, ops>>
    /\ UNCHANGED <<logVars, errVars, logLock>>

\* lines 15-18: the initializer of GLOBAL_INIT_REG_HELPER.  lazy_static runs
\* it at the first dereference of the static.  No expression of the module
\* dereferences GLOBAL_INIT_REG_HELPER (it is private to the module): the
\* initializer is a step of no call.
GlobalInitRegHelper ==
    /\ registered = 0
    /\ registered' = registered + 1
    /\ UNCHANGED <<cacheVars, logVars, distro, mapped, logLock>>

\* what Capturer::new and the other callers of map_err_scrap pass to it here
ScrapErrors ==
    { <<112, 105, 112, 101, 119, 105, 114, 101, 32, 116, 105, 109, 101, 111, 117, 116>>,
      <<117, 110, 107, 110, 111, 119, 110>> }

\* scrap turns the raw failure of Capturer::new into an io::Error through the
\* translator registered with set_map_err, when there is one
Translator ==
    IF registered > 0 THEN "map_err_scrap" ELSE "none"

\* map_err_scrap returns: to its caller, or, called by scrap inside
\* Capturer::new, to the `?` of line 121
MapErrScrapLeave(t, op) ==
    IF op = "map_err_scrap"
       THEN /\ Return(t, op, "none", "none", "Ok", 0)
            /\ UNCHANGED <<rw, fails>>
       ELSE InitFails(t, "Failed to create capturer")

\* lines 21-40 in a thread: the io::Error is decided; on the paths of lines 26
\* and 30 the thread goes on to try_log
MapErrScrapEnter(t, op, err) ==
    /\ mapped' = [called |-> TRUE, err |-> err, out |-> MapErrScrapText(distro, err)]
    /\ UNCHANGED <<distro, registered, logVars, logLock>>
    /\ IF MapErrScrapLogs(distro)
          THEN /\ th' = [th EXCEPT ![t] = [@ EXCEPT !.pc = "tl_lock", !.op = op]]
               /\ ret' = [ret EXCEPT ![t] = NoRet]
               /\ UNCHANGED <<rw, fails>>
          ELSE MapErrScrapLeave(t, op)

\* a thread calls map_err_scrap (the function is pub)
MapErrScrapBegin(t) ==
    /\ Begin(t)
    /\ \E err \in ScrapErrors : MapErrScrapEnter(t, "map_err_scrap", err)
    /\ UNCHANGED <<x11, cap, boxes, devs, enumCount, releases, uinput>>

\* line 43: LOG_SCRAP_COUNT.lock()
TryLogLock(t) ==
    /\ th[t].pc = "tl_lock"
    /\ logLock = 0
    /\ logLock' = t
    /\ th' = [th EXCEPT ![t].pc = "tl_body"]
    /\ UNCHANGED <<x11, cap, rw, boxes, devs, ret, enumCount, fails, releases,
                   uinput, ops>>
    /\ UNCHANGED <<logVars, errVars>>

\* lines 44-51 with the guard held, the guard dropped at the return
TryLogBody(t) ==
    /\ th[t].pc = "tl_body"
    /\ TryLog
    /\ logLock' = 0
    /\ MapErrScrapLeave(t, th[t].op)
    /\ UNCHANGED <<x11, cap, boxes, devs, enumCount, releases, uinput, ops>>
    /\ UNCHANGED errVars

\* lines 120-123: Box::into_raw(Box::new(Capturer::new(display, true)?))
CheckInitNewCapturer(t) ==
    /\ th[t].pc = "ci_new"
    /\ \/ /\ IF Translator = "none"
                THEN /\ InitFails(t, "Failed to create capturer")
                     /\ UNCHANGED <<logVars, errVars, logLock>>
                ELSE \E err \in ScrapErrors : MapErrScrapEnter(t, th[t].op, err)
          /\ UNCHANGED <<x11, cap, boxes, devs, enumCount, releases, uinput,
                         ops>>
       \/ /\ devs' = Append(devs, "live")
          /\ th' = [th EXCEPT ![t].pc = "ci_publish", ![t].capturer = Len(devs) + 1]
          /\ UNCHANGED <<x11, cap, rw, boxes, ret, enumCount, fails, releases,
                         uinput, ops>>
          /\ UNCHANGED <<logVars, errVars, logLock>>

\* lines 124-134: box the CapDisplayInfo, *lock = its address, drop the guard
CheckInitPublish(t) ==
    /\ th[t].pc = "ci_publish"
    /\ boxes' = Append(boxes,
                       CapDisplayInfo(RectsOf(th[t].all),
                                      DisplayInfos(th[t].all),
                                      Len(th[t].all), th[t].primary,
                                      th[t].current, th[t].capturer))
    /\ cap' = Len(boxes) + 1
    /\ rw' = Unlocked
    /\ AfterInit(t, "init", th[t].bounds)
    /\ UNCHANGED <<x11, devs, enumCount, fails, releases, uinput, ops>>
    /\ UNCHANGED <<logVars, errVars, logLock>>

\* allow_err!(r): an Err is logged and dropped, the result is not kept
AllowErr(dropped, ok) ==
    IF ok THEN dropped ELSE dropped + 1

\* a forwarding whose failure is propagated with `?` where line 144 drops it
CheckInitUinputResolutionPropagates(t) ==
    /\ th[t].pc = "ci_uinput_res"
    /\ uinput' = Append(uinput, [call |-> "set_uinput_resolution",
                                 args |-> th[t].bounds])
    /\ \E ok \in BOOLEAN :
         IF ok
            THEN /\ th' = [th EXCEPT ![t].pc = "ci_uinput"]
                 /\ UNCHANGED ret
            ELSE Return(t, th[t].op, th[t].via, "none", "Err", "set_uinput_resolution")
    /\ UNCHANGED <<x11, cap, rw, boxes, devs, enumCount, fails, releases,
                   ops>>
    /\ UNCHANGED <<logVars, errVars, logLock>>

\* line 144: allow_err!(input_service::set_uinput_resolution(..).await): the
\* call succeeds or fails
CheckInitUinputResolution(t) ==
    /\ th[t].pc = "ci_uinput_res"
    /\ uinput' = Append(uinput, [call |-> "set_uinput_resolution",
                                 args |-> th[t].bounds])
    /\ \E ok \in BOOLEAN :
         th' = [th EXCEPT ![t].pc = "ci_uinput",
                          ![t].dropped = AllowErr(th[t].dropped, ok)]
    /\ UNCHANGED <<x11, cap, rw, boxes, devs, ret, enumCount, fails, releases,
                   ops>>
    /\ UNCHANGED <<logVars, errVars, logLock>>

\* line 145: allow_err!(input_service::set_uinput().await), then Ok(())
CheckInitUinput(t) ==
    /\ th[t].pc = "ci_uinput"
    /\ uinput' = Append(uinput, [call |-> "set_uinput", args |-> <<>>])
    /\ \E ok \in BOOLEAN :
         CheckInitDone(t, th[t].op, th[t].via, AllowErr(th[t].dropped, ok))
    /\ UNCHANGED <<x11, cap, rw, boxes, devs, enumCount, fails, releases,
                   ops>>
    /\ UNCHANGED <<logVars, errVars, logLock>>

\* ---------------------------------------------------- clear (151-164)
\* a clear without the X11 gate
ClearGateNoX11Check(t) ==
    /\ Begin(t)
    /\ th' = [th EXCEPT ![t] = [IdleThread EXCEPT !.pc = "cl_wlock", !.op = "clear"]]
    /\ ret' = [ret EXCEPT ![t] = NoRet]
    /\ x11' \in BOOLEAN
    /\ UNCHANGED <<cap, rw, boxes, devs, enumCount, fails, releases, uinput>>
    /\ UNCHANGED <<logVars, errVars, logLock>>

\* line 152: if scrap::is_x11() { return; }
ClearGate(t) ==
    /\ Begin(t)
    /\ \E is_x11 \in BOOLEAN :
         /\ x11' = is_x11
         /\ IF is_x11
               THEN Return(t, "clear", "x11", "none", "Ok", 0)
               ELSE /\ th' = [th EXCEPT ![t] = [IdleThread EXCEPT !.pc = "cl_wlock",
                                                                 !.op = "clear"]]
                    /\ ret' = [ret EXCEPT ![t] = NoRet]
    /\ UNCHANGED <<cap, rw, boxes, devs, enumCount, fails, releases,
                   uinput>>
    /\ UNCHANGED <<logVars, errVars, logLock>>

\* a clear that takes CAP_DISPLAY_INFO.read() where it needs write()
ClearReadLock(t) ==
    /\ th[t].pc = "cl_wlock"
    /\ CanRead
    /\ rw' = [rw EXCEPT !.readers = @ \cup {t}]
    /\ th' = [th EXCEPT ![t].pc = "cl_crit"]
    /\ UNCHANGED <<x11, cap, boxes, devs, ret, enumCount, fails, releases,
                   uinput, ops>>
    /\ UNCHANGED <<logVars, errVars, logLock>>

\* line 156: CAP_DISPLAY_INFO.write()
ClearWriteLock(t) ==
    /\ th[t].pc = "cl_wlock"
    /\ CanWrite
    /\ rw' = [rw EXCEPT !.writer = t]
    /\ th' = [th EXCEPT ![t].pc = "cl_crit"]
    /\ UNCHANGED <<x11, cap, boxes, devs, ret, enumCount, fails, releases,
                   uinput, ops>>
    /\ UNCHANGED <<logVars, errVars, logLock>>

\* a clear that drops the CapDisplayInfo but not the Capturer it points to
ClearReleaseKeepsCapturer(t) ==
    /\ th[t].pc = "cl_crit"
    /\ IF cap # 0
          THEN /\ boxes' = [boxes EXCEPT ![cap] = FreedBox]
               /\ cap' = 0
               /\ releases' = releases + 1
               /\ Return(t, "clear", "released", "none", "Ok", 0)
               /\ UNCHANGED devs
          ELSE /\ UNCHANGED <<devs, boxes, cap, releases>>
               /\ Return(t, "clear", "absent", "none", "Ok", 0)
    /\ rw' = Unlocked
    /\ UNCHANGED <<x11, enumCount, fails, uinput, ops>>
    /\ UNCHANGED <<logVars, errVars, logLock>>

\* a clear that drops the Capturer and leaves the address in CAP_DISPLAY_INFO
ClearReleaseKeepsAddress(t) ==
    /\ th[t].pc = "cl_crit"
    /\ IF cap # 0
          THEN /\ devs' = [devs EXCEPT ![boxes[cap].capturer] =
                              IF @ = "live" THEN "released" ELSE "released twice"]
               /\ releases' = releases + 1
               /\ Return(t, "clear", "released", "none", "Ok", 0)
               /\ UNCHANGED <<boxes, cap>>
          ELSE /\ UNCHANGED <<devs, boxes, cap, releases>>
               /\ Return(t, "clear", "absent", "none", "Ok", 0)
    /\ rw' = Unlocked
    /\ UNCHANGED <<x11, enumCount, fails, uinput, ops>>
    /\ UNCHANGED <<logVars, errVars, logLock>>

\* lines 157-164: drop the Capturer and the CapDisplayInfo, *lock = 0, drop the guard
ClearRelease(t) ==
    /\ th[t].pc = "cl_crit"
    /\ IF cap # 0
          THEN /\ devs' = [devs EXCEPT ![boxes[cap].capturer] =
                              IF @ = "live" THEN "released" ELSE "released twice"]
               /\ boxes' = [boxes EXCEPT ![cap] = FreedBox]
               /\ cap' = 0
               /\ releases' = releases + 1
               /\ Return(t, "clear", "released", "none", "Ok", 0)
          ELSE /\ UNCHANGED <<devs, boxes, cap, releases>>
               /\ Return(t, "clear", "absent", "none", "Ok", 0)
    /\ rw' = Unlocked
    /\ UNCHANGED <<x11, enumCount, fails, uinput, ops>>
    /\ UNCHANGED <<logVars, errVars, logLock>>

\* ------------------------------------------- the accessors (166-232)
\* what an accessor computes from the CapDisplayInfo it dereferences
AccessorValue(op, box) ==
    CASE op = "get_primary" -> box.primary
      [] op = "get_display_num" -> box.num
      [] op = "get_displays" -> [primary |-> box.primary, displays |-> box.displays]
      [] op = "get_capturer" ->
           [origin |-> box.rects[box.current + 1][1],
            width |-> box.rects[box.current + 1][2],
            height |-> box.rects[box.current + 1][3],
            ndisplay |-> box.num,
            current |-> box.current,
            capturer |-> CapturerPtrClone(box.capturer)]

\* get_primary (182) and get_display_num (195) start
AccessorBegin(t, op) ==
    /\ op \in {"get_primary", "get_display_num"}
    /\ Begin(t)
    /\ th' = [th EXCEPT ![t] = [IdleThread EXCEPT !.pc = "acc_rlock", !.op = op]]
    /\ ret' = [ret EXCEPT ![t] = NoRet]
    /\ UNCHANGED <<x11, cap, rw, boxes, devs, enumCount, fails, releases,
                   uinput>>
    /\ UNCHANGED <<logVars, errVars, logLock>>

\* lines 209-211: get_capturer bails on X11
GetCapturerGate(t) ==
    /\ Begin(t)
    /\ \E is_x11 \in BOOLEAN :
         /\ x11' = is_x11
         /\ IF is_x11
               THEN Return(t, "get_capturer", "x11", "none", "Err",
                           "Do not call this function if not wayland")
               ELSE /\ th' = [th EXCEPT ![t] = [IdleThread EXCEPT !.pc = "acc_rlock",
                                                                 !.op = "get_capturer"]]
                    /\ ret' = [ret EXCEPT ![t] = NoRet]
    /\ UNCHANGED <<cap, rw, boxes, devs, enumCount, fails, releases,
                   uinput>>
    /\ UNCHANGED <<logVars, errVars, logLock>>

\* lines 168, 183, 196, 212: CAP_DISPLAY_INFO.read()
AccessorReadLock(t) ==
    /\ th[t].pc = "acc_rlock"
    /\ CanRead
    /\ rw' = [rw EXCEPT !.readers = @ \cup {t}]
    /\ th' = [th EXCEPT ![t].pc = "acc_read"]
    /\ UNCHANGED <<x11, cap, boxes, devs, ret, enumCount, fails, releases,
                   uinput, ops>>
    /\ UNCHANGED <<logVars, errVars, logLock>>

\* an accessor that answers a default value when the cache is absent
AccessorReadDefault(t) ==
    /\ th[t].pc = "acc_read"
    /\ rw' = [rw EXCEPT !.readers = @ \ {t}]
    /\ IF cap = 0
          THEN Return(t, th[t].op, th[t].via, "absent", "Ok", 0)
          ELSE /\ th' = [th EXCEPT ![t].pc = "acc_deref", ![t].addr = cap]
               /\ UNCHANGED ret
    /\ UNCHANGED <<x11, cap, boxes, devs, enumCount, fails, releases,
                   uinput, ops>>
    /\ UNCHANGED <<logVars, errVars, logLock>>

\* `let addr = *guard;` drops the guard; addr == 0 bails at once
AccessorRead(t) ==
    /\ th[t].pc = "acc_read"
    /\ rw' = [rw EXCEPT !.readers = @ \ {t}]
    /\ IF cap = 0
          THEN Return(t, th[t].op, th[t].via, "absent", "Err",
                      "Failed to get capturer display info")
          ELSE /\ th' = [th EXCEPT ![t].pc = "acc_deref", ![t].addr = cap]
               /\ UNCHANGED ret
    /\ UNCHANGED <<x11, cap, boxes, devs, enumCount, fails, releases,
                   uinput, ops>>
    /\ UNCHANGED <<logVars, errVars, logLock>>

\* `&*cap_display_info` with no lock held.  When clear has freed the box in
\* between, the read is of freed memory: it yields stale bytes or whatever
\* the allocator has put there (an abort is the behaviour ending here).
AccessorDeref(t) ==
    /\ th[t].pc = "acc_deref"
    /\ \E box \in (IF boxes[th[t].addr].live
                      THEN {boxes[th[t].addr]}
                      ELSE StaleBoxes) :
         LET mem == IF boxes[th[t].addr].live THEN "live" ELSE "freed"
             val == AccessorValue(th[t].op, box)
         IN  Return(t, th[t].op, th[t].via, mem, "Ok", val)
    /\ UNCHANGED <<x11, cap, rw, boxes, devs, enumCount, fails, releases,
                   uinput, ops>>
    /\ UNCHANGED <<logVars, errVars, logLock>>

\* --------------------------------- impl TraitCapturer for CapturerPtr (61-71)
\* the method of the handle that is followed here; set_use_yuv (line 66)
\* dereferences the pointer in the same way and returns nothing
HandleOps ==
    {"frame"}

\* thread t holds a handle: the CapturerInfo its get_capturer returned, which
\* it may have used since
HoldsHandle(t) ==
    \/ ret[t].op = "get_capturer" /\ ret[t].status = "Ok"
    \/ ret[t].op \in HandleOps

\* the state the CapDisplayInfo was in when the handle of thread t was read
HandleFrom(t) ==
    IF ret[t].op = "get_capturer" THEN ret[t].mem ELSE ret[t].from

\* line 62: the holder of a handle calls frame on it
CapturerPtrCall(t, op) ==
    /\ op \in HandleOps
    /\ th[t].pc = "idle"
    /\ HoldsHandle(t)
    /\ th' = [th EXCEPT ![t] = [IdleThread EXCEPT !.pc = "cp_deref", !.op = op]]
    /\ UNCHANGED <<x11, cap, rw, boxes, devs, ret, enumCount, fails, releases,
                   uinput, ops>>
    /\ UNCHANGED <<logVars, errVars, logLock>>

\* the memory `*self.0` designates: a Capturer, a Capturer that was dropped,
\* or nothing (a null pointer read from freed memory)
DerefMem(p) ==
    IF p \in 1..Len(devs)
       THEN (IF devs[p] = "live" THEN "live" ELSE "freed")
       ELSE "null"

\* what frame returns: an io::Result.  On a dropped Capturer or a null
\* pointer the call is undefined: it may return either way (an abort is the
\* behaviour ending here).
DerefResults(op) ==
    {"Ok", "Err"}

\* a handle that knows whether its device was released and refuses the call
CapturerPtrDerefChecked(t) ==
    /\ th[t].pc = "cp_deref"
    /\ LET p == ret[t].val.capturer
       IN  \E status \in DerefResults(th[t].op) :
             ret' = [ret EXCEPT ![t] =
                       [op |-> th[t].op,
                        status |-> IF DerefMem(p) = "live" THEN status ELSE "Err",
                        via |-> "none",
                        mem |-> IF DerefMem(p) = "live" THEN "live" ELSE "none",
                        addr |-> ret[t].addr, val |-> ret[t].val,
                        from |-> HandleFrom(t)]]
    /\ th' = [th EXCEPT ![t] = IdleThread]
    /\ UNCHANGED <<x11, cap, rw, boxes, devs, enumCount, fails, releases,
                   uinput, ops>>
    /\ UNCHANGED <<logVars, errVars, logLock>>

\* line 63: unsafe { (*self.0).frame(timeout) }: the raw pointer is
\* dereferenced as it is, with no lock held
CapturerPtrDeref(t) ==
    /\ th[t].pc = "cp_deref"
    /\ LET p == ret[t].val.capturer
       IN  \E status \in DerefResults(th[t].op) :
             ret' = [ret EXCEPT ![t] =
                       [op |-> th[t].op, status |-> status, via |-> "none",
                        mem |-> DerefMem(p), addr |-> ret[t].addr,
                        val |-> ret[t].val, from |-> HandleFrom(t)]]
    /\ th' = [th EXCEPT ![t] = IdleThread]
    /\ UNCHANGED <<x11, cap, rw, boxes, devs, enumCount, fails, releases,
                   uinput, ops>>
    /\ UNCHANGED <<logVars, errVars, logLock>>

\* ---------------------------------------------------- specifications
NextCache ==
    \E t \in Threads :
         \/ \E op \in {"check_init", "get_displays"} : CheckInitGate(t, op)
         \/ CheckInitReadLock(t)
         \/ CheckInitFastPath(t)
         \/ CheckInitWriteLock(t)
         \/ CheckInitRecheck(t)
         \/ CheckInitEnumerate(t)
         \/ CheckInitCurrent(t)
         \/ CheckInitNewCapturer(t)
         \/ CheckInitPublish(t)
         \/ CheckInitUinputResolution(t)
         \/ CheckInitUinput(t)
         \/ ClearGate(t)
         \/ ClearWriteLock(t)
         \/ ClearRelease(t)
         \/ \E op \in {"get_primary", "get_display_num"} : AccessorBegin(t, op)
         \/ GetCapturerGate(t)
         \/ AccessorReadLock(t)
         \/ AccessorRead(t)
         \/ AccessorDeref(t)
         \/ \E op \in HandleOps : CapturerPtrCall(t, op)
         \/ CapturerPtrDeref(t)

\* the cache under concurrent callers
Spec ==
    Init /\ [][NextCache]_vars

\* the process after start, the translator registered or not: set_map_err and
\* map_err_scrap are pub, other code of the process may have registered it
InitLocks ==
    /\ x11 = FALSE
    /\ cap = 0
    /\ rw = Unlocked
    /\ boxes = <<>>
    /\ devs = <<>>
    /\ th = [t \in Threads |-> IdleThread]
    /\ ret = [t \in Threads |-> NoRet]
    /\ enumCount = 0
    /\ fails = 0
    /\ releases = 0
    /\ uinput = <<>>
    /\ ops = 0
    /\ logCount = 0
    /\ logCalls = 0
    /\ logLines = 0
    /\ logEmit = FALSE
    /\ distro = DefaultDistro
    /\ mapped = [called |-> FALSE, err |-> <<>>, out |-> <<>>]
    /\ registered \in {0, 1}
    /\ logLock = 0

\* the steps of map_err_scrap and try_log in a thread
NextLog ==
    \E t \in Threads :
         \/ MapErrScrapBegin(t)
         \/ TryLogLock(t)
         \/ TryLogBody(t)

\* thread t is in a call and takes a step of it
Continue(t) ==
    /\ th[t].pc # "idle"
    /\ NextCache \/ NextLog
    /\ th'[t] # th[t]

\* the cache and the logger under concurrent callers; a thread that can take
\* the next step of its call eventually takes it
SpecLocks ==
    /\ InitLocks
    /\ [][NextCache \/ NextLog]_vars
    /\ \A t \in Threads : WF_vars(Continue(t))

\* the logger at process start, or just below the ceiling after
\* LOG_CEILING - LogSlack calls (a state the first start reaches)
InitLogAny ==
    /\ x11 = FALSE
    /\ cap = 0
    /\ rw = Unlocked
    /\ boxes = <<>>
    /\ devs = <<>>
    /\ th = [t \in Threads |-> IdleThread]
    /\ ret = [t \in Threads |-> NoRet]
    /\ enumCount = 0
    /\ fails = 0
    /\ releases = 0
    /\ uinput = <<>>
    /\ ops = 0
    /\ logCount \in {0, LOG_CEILING - LogSlack}
    /\ logCalls = logCount
    /\ logLines = (IF logCount = 0 THEN 0 ELSE LOG_CEILING \div LOG_PERIOD)
    /\ logEmit = FALSE
    /\ distro = DefaultDistro
    /\ mapped = [called |-> FALSE, err |-> <<>>, out |-> <<>>]
    /\ registered = 0
    /\ logLock = 0

\* try_log alone, over the whole range of its counter
SpecLog ==
    InitLogAny /\ [][TryLogCall]_vars

\* the process after start, on any distribution of the input domains
InitDistro ==
    /\ x11 = FALSE
    /\ cap = 0
    /\ rw = Unlocked
    /\ boxes = <<>>
    /\ devs = <<>>
    /\ th = [t \in Threads |-> IdleThread]
    /\ ret = [t \in Threads |-> NoRet]
    /\ enumCount = 0
    /\ fails = 0
    /\ releases = 0
    /\ uinput = <<>>
    /\ ops = 0
    /\ logCount = 0
    /\ logCalls = 0
    /\ logLines = 0
    /\ logEmit = FALSE
    /\ distro \in [name : DistroNames, version_id : DistroVersions]
    /\ mapped = [called |-> FALSE, err |-> <<>>, out |-> <<>>]
    /\ registered = 0
    /\ logLock = 0

\* map_err_scrap on every distribution and message of the input domains
SpecErr ==
    InitDistro /\ [][MapErrScrapCall]_vars

\* ------------------------------------------------------------ claims
\* the handlers a thread is in while it holds the write lock in check_init
InitPcs ==
    {"ci_recheck", "ci_enum", "ci_cur", "ci_new", "ci_publish"}

\* thread t has come out of the non-X11 branch of check_init with Ok
CheckInitOk(t) ==
    \/ /\ ret[t].op \in {"check_init", "get_displays"}
       /\ ret[t].via \in {"fast", "recheck", "init"}
       /\ ret[t].status = "Ok"
    \/ /\ th[t].op = "get_displays"
       /\ th[t].pc \in {"acc_rlock", "acc_read", "acc_deref"}
       /\ th[t].via \in {"fast", "recheck", "init"}

\* what the last call of thread t read from a live cache: <<field, value>> pairs
Reads(t) ==
    IF ret[t].status # "Ok" \/ ret[t].mem # "live" THEN {}
    ELSE CASE ret[t].op = "get_primary" -> {<<"primary", ret[t].val>>}
           [] ret[t].op = "get_display_num" -> {<<"num", ret[t].val>>}
           [] ret[t].op = "get_displays" ->
                {<<"primary", ret[t].val.primary>>, <<"num", Len(ret[t].val.displays)>>}
           [] ret[t].op = "get_capturer" ->
                {<<"num", ret[t].val.ndisplay>>, <<"current", ret[t].val.current>>}
           [] OTHER -> {}

\* C1: with no failed enumeration or construction and no release by clear, the
\* check_init calls that took the non-X11 branch have caused at most one
\* Display::all and one Capturer::new; once one of them has returned Ok exactly
\* one of each has happened and the cache is present; any two callers that then
\* read num, primary or current read the same values.
C1_IdempotentInit ==
    (fails = 0 /\ releases = 0) =>
        /\ enumCount <= 1
        /\ Len(devs) <= 1
        /\ \A t \in Threads :
             CheckInitOk(t) => cap # 0 /\ enumCount = 1 /\ Len(devs) = 1
        /\ \A t, u \in Threads : \A p \in Reads(t) : \A q \in Reads(u) :
             p[1] = q[1] => p[2] = q[2]

\* C1 witness: two get_displays calls raced on an absent cache, one initialized,
\* the other found the cache present on the re-check; both returned the state.
C1_Witness ==
    /\ fails = 0 /\ releases = 0 /\ enumCount = 1
    /\ \E t, u \in Threads :
         /\ ret[t].op = "get_displays" /\ ret[t].via = "init" /\ ret[t].status = "Ok"
         /\ ret[u].op = "get_displays" /\ ret[u].via = "recheck" /\ ret[u].status = "Ok"
         /\ Len(ret[t].val.displays) = 2

\* a CapDisplayInfo all of whose fields were set from one enumeration, with a
\* constructed capturer
FullyBuilt(b) ==
    /\ b.capturer \in 1..Len(devs)
    /\ \E all \in Topologies :
         /\ b.rects = RectsOf(all)
         /\ b.displays = DisplayInfos(all)
         /\ b.num = Len(all)
         /\ b.primary \in PrimaryChoices(all)
         /\ b.current \in CurrentChoices(all)

\* C2: CAP_DISPLAY_INFO is 0 or the address of a live, fully built
\* CapDisplayInfo; while it is non-zero no thread is inside the enumeration or
\* the device construction, and no thread holds the read lock while one is.
C2_NoPartialState ==
    /\ cap # 0 =>
         /\ cap \in 1..Len(boxes)
         /\ boxes[cap].live
         /\ FullyBuilt(boxes[cap])
         /\ \A t \in Threads : th[t].pc \notin {"ci_enum", "ci_cur", "ci_new", "ci_publish"}
    /\ (\E t \in Threads : th[t].pc \in {"ci_enum", "ci_cur", "ci_new", "ci_publish"})
          => rw.readers = {}

\* C2 witness: an accessor holds the read lock on a present cache while another
\* thread is in check_init.
C2_Witness ==
    /\ cap # 0
    /\ \E t, u \in Threads :
         /\ th[t].pc = "acc_read"
         /\ th[u].pc \in {"ci_rlock", "ci_wlock"}

\* C3 (state): a present cache was built by an enumeration and a construction
\* of its own: every Display::all call has failed, or been released by clear,
\* or built the present cache, and the present device is a new, live one.
C3_FreshAfterClear ==
    cap # 0 =>
        /\ enumCount = fails + releases + 1
        /\ Len(devs) = releases + 1
        /\ boxes[cap].capturer = Len(devs)
        /\ devs[boxes[cap].capturer] = "live"

\* C3 (step): the step of clear under the write lock, on a present cache,
\* releases the device and the state and leaves the cache absent; on an absent
\* cache it changes nothing.
C3_ClearStep ==
    \A t \in Threads :
        (th[t].pc = "cl_crit" /\ th'[t].pc # "cl_crit") =>
            IF cap # 0
               THEN /\ cap' = 0
                    /\ devs[boxes[cap].capturer] = "live"
                    /\ devs'[boxes[cap].capturer] = "released"
                    /\ ~boxes'[cap].live
                    /\ releases' = releases + 1
               ELSE UNCHANGED <<cap, boxes, devs, releases>>

\* C3: clear on a present cache releases the device and leaves the cache
\* absent, the next check_init enumerates and constructs anew (with no failure,
\* one release takes the enumeration count from 1 to 2); clear on an absent
\* cache changes and releases nothing.
C3_TeardownResets ==
    /\ [](C3_FreshAfterClear /\ (cap # 0 /\ fails = 0 /\ releases = 1 => enumCount = 2))
    /\ [][C3_ClearStep]_vars

\* C3 witness: check_init, clear, check_init: the second cache is present, the
\* first device released, two enumerations counted.
C3_Witness ==
    /\ cap = 2 /\ fails = 0 /\ releases = 1 /\ enumCount = 2
    /\ devs = <<"released", "live">>
    /\ \E t \in Threads : ret[t].op = "clear" /\ ret[t].via = "released"

\* C4: at most one thread is inside the write-locked region of clear or of
\* check_init (from the re-check to the publication), and while one is no
\* thread holds the read lock.
C4_MutualExclusion ==
    LET writers == {t \in Threads : th[t].pc \in InitPcs \cup {"cl_crit"}}
        readers == {t \in Threads : th[t].pc \in {"ci_fast", "acc_read"}}
    IN  /\ Cardinality(writers) <= 1
        /\ writers # {} => readers = {}
        /\ \A t \in writers : rw.writer = t
        /\ rw.readers = readers

\* C4 witness: clear is inside its write-locked region while a check_init that
\* saw the cache absent waits for the write lock.
C4_Witness ==
    \E t, u \in Threads :
        /\ th[t].pc = "cl_crit"
        /\ th[u].pc = "ci_wlock"
        /\ cap # 0

\* the accessors that never initialize
PlainAccessors ==
    {"get_primary", "get_display_num", "get_capturer"}

\* C5 (step): every step of get_primary, get_display_num and get_capturer
\* leaves the cache, the enumeration count, the devices and the collaborator
\* untouched, and the step that reads the cache absent returns an error.
C5_AccessorStep ==
    \A t \in Threads :
        /\ (th[t].op \in PlainAccessors /\ th'[t] # th[t]) =>
              UNCHANGED <<cap, boxes, devs, enumCount, uinput, releases>>
        /\ (th[t].op \in PlainAccessors /\ th[t].pc = "acc_read" /\ th'[t] # th[t]
              /\ cap = 0) =>
              /\ th'[t].pc = "idle"
              /\ ret'[t].status = "Err"
              /\ ret'[t].op = th[t].op
              /\ cap' = 0

\* C5: on an absent cache get_primary, get_display_num and get_capturer return
\* an error, never a value, and do not initialize.
C5_AccessorPreInit ==
    /\ [](\A t \in Threads :
            (ret[t].op \in PlainAccessors /\ ret[t].status = "Ok") => ret[t].addr # 0)
    /\ [][C5_AccessorStep]_vars

\* C5 witness: get_primary and get_capturer have both failed on a cache that was
\* never initialized and still is absent.
C5_Witness ==
    /\ cap = 0 /\ enumCount = 0
    /\ \E t, u \in Threads :
         /\ ret[t].op = "get_primary" /\ ret[t].status = "Err" /\ ret[t].mem = "absent"
         /\ ret[u].op = "get_capturer" /\ ret[u].status = "Err" /\ ret[u].mem = "absent"

\* ASCII lower-casing, for the comparison the claim words as case-insensitive
ToLowerByte(c) ==
    IF c >= 65 /\ c <= 90 THEN c + 32 ELSE c

\* a and b are equal up to the case of their letters
EqualIgnoringCase(a, b) ==
    /\ Len(a) = Len(b)
    /\ \A i \in 1..Len(a) : ToLowerByte(a[i]) = ToLowerByte(b[i])

\* the claim's decision table
ClassifierTable(d, msg) ==
    CASE EqualIgnoringCase(d.name, StrUbuntu) /\ StrLess(d.version_id, Str21) ->
           SCRAP_UBUNTU_HIGHER_REQUIRED
      [] EqualIgnoringCase(d.name, StrUbuntu) /\ ~StrLess(d.version_id, Str21) ->
           msg
      [] ~EqualIgnoringCase(d.name, StrUbuntu)
           /\ (Contains(msg, StrPortal) \/ Contains(msg, StrPipewire) \/ Contains(msg, StrDbus)) ->
           SCRAP_OTHER_VERSION_OR_X11_REQUIRED
      [] OTHER -> SCRAP_X11_REQUIRED

\* C6: map_err_scrap returns the text of the claim's decision table for every
\* distro name, version and raw message; outside the table's second row the
\* result is one of the three fixed texts whatever the message.
C6_ClassifierTable ==
    mapped.called =>
        /\ mapped.out = ClassifierTable(distro, mapped.err)
        /\ (~EqualIgnoringCase(distro.name, StrUbuntu) \/ StrLess(distro.version_id, Str21))
              => mapped.out \in {SCRAP_UBUNTU_HIGHER_REQUIRED,
                                 SCRAP_OTHER_VERSION_OR_X11_REQUIRED,
                                 SCRAP_X11_REQUIRED}

\* C6 witness: on "UBUNTU" version "9" (not below "21" as strings) the message
\* "boom" came back as it went in.
C6_Witness ==
    /\ mapped.called
    /\ distro.name = <<85, 66, 85, 78, 84, 85>>
    /\ distro.version_id = <<57>>
    /\ mapped.err = <<98, 111, 111, 109>>
    /\ mapped.out = <<98, 111, 111, 109>>

\* the number of k in 0..(n - 1) with k < 1,000,000 and k mod 10,000 = 0
LinesAfter(n) ==
    IF n = 0 THEN 0
    ELSE IF n >= 1000000 THEN 100
    ELSE ((n - 1) \div 10000) + 1

\* C7: the k-th try_log call (k from 0) emits a line iff k < 1,000,000 and
\* k mod 10,000 = 0: 25,000 calls emit 3 lines, none is emitted after the
\* 1,000,000th call, at most 100 lines are ever emitted.
C7_LogCadence ==
    /\ logCalls > 0 =>
         (logEmit <=> (logCalls - 1 < 1000000 /\ (logCalls - 1) % 10000 = 0))
    /\ logLines = LinesAfter(logCalls)
    /\ logCalls = 25000 => logLines = 3
    /\ logLines <= 100

\* C7 witness: the call after the 1,000,000th has been made and emitted nothing.
C7_Witness ==
    /\ logCalls = 1000001
    /\ logLines = 100
    /\ ~logEmit

\* C8 as claimed: the counter counts every try_log call, also past 1,000,000.
C8_CounterCountsEveryCall ==
    logCount = logCalls

\* C8 amended: the counter counts the try_log calls made while it is below
\* 1,000,000 and stays at 1,000,000 afterwards: a call past the ceiling
\* returns before the increment.
C8_CounterStopsAtCeiling ==
    logCount = (IF logCalls < 1000000 THEN logCalls ELSE 1000000)

\* C8 witness: more than 1,000,000 calls were made, the counter is 1,000,000.
C8_Witness ==
    /\ logCalls > 1000000
    /\ logCount = 1000000

\* C9: the handles of two successful get_capturer calls that read the same
\* live cache hold the same pointer, a pointer to a device check_init has
\* constructed; while that cache is present it is the device the cache owns.
C9_HandleAliasing ==
    \A t, u \in Threads :
        (/\ ret[t].op = "get_capturer" /\ ret[t].status = "Ok" /\ ret[t].mem = "live"
         /\ ret[u].op = "get_capturer" /\ ret[u].status = "Ok" /\ ret[u].mem = "live"
         /\ ret[t].addr = ret[u].addr) =>
            /\ ret[t].val.capturer = ret[u].val.capturer
            /\ boxes[ret[t].addr].live =>
                  ret[t].val.capturer = boxes[ret[t].addr].capturer
            /\ ret[t].val.capturer \in 1..Len(devs)

\* C9 witness: two threads hold handles from the same cache generation.
C9_Witness ==
    \E t, u \in Threads :
        /\ t # u
        /\ ret[t].op = "get_capturer" /\ ret[t].status = "Ok" /\ ret[t].mem = "live"
        /\ ret[u].op = "get_capturer" /\ ret[u].status = "Ok" /\ ret[u].mem = "live"
        /\ ret[t].addr = ret[u].addr
        /\ cap = ret[t].addr

\* C10 (step): a check_init or a clear that starts and is answered true by
\* is_x11() has
\* returned Ok in that one step (check_init inside get_displays: has gone on to
\* the read of line 168) and has left the lock, the cache, the heap, the
\* counters and the collaborator as they were.
C10_GateStep ==
    \A t \in Threads :
        (x11' /\ th[t].pc = "idle" /\ ops' = ops + 1
           /\ (th'[t] # th[t] \/ ret'[t] # ret[t])
           /\ (IF th'[t].pc = "idle" THEN ret'[t].op ELSE th'[t].op)
                 \in {"check_init", "clear", "get_displays"}) =>
            /\ UNCHANGED <<cap, rw, boxes, devs, enumCount, fails, releases, uinput>>
            /\ IF th'[t].pc = "idle"
                  THEN ret'[t].status = "Ok" /\ ret'[t].via = "x11"
                  ELSE /\ th'[t].op = "get_displays"
                       /\ th'[t].pc = "acc_rlock"
                       /\ th'[t].via = "x11"

\* C10: on X11 check_init and clear are no-ops that return at once.
C10_X11NoOp ==
    [][C10_GateStep]_vars

\* C10 witness: is_x11() has turned true with the cache present; a clear and a
\* check_init have returned and the cache is still present.
C10_Witness ==
    /\ x11
    /\ cap # 0
    /\ devs[boxes[cap].capturer] = "live"
    /\ \E t, u \in Threads :
         /\ ret[t].op = "clear" /\ ret[t].via = "x11" /\ ret[t].status = "Ok"
         /\ ret[u].op = "check_init" /\ ret[u].via = "x11" /\ ret[u].status = "Ok"

\* the calls made to input_service with the given name
UinputCalls(name) ==
    {i \in 1..Len(uinput) : uinput[i].call = name}

\* the positions of a check_init call at the two forwarding calls
UinputPcs ==
    {"ci_uinput_res", "ci_uinput"}

\* C11 (step): the publishing step of the initializing call goes on to
\* set_uinput_resolution exactly when the current display has a non-zero width
\* and a non-zero height, and then with (x, x + width, y, y + height) of that
\* display; the forwarding step passes these four numbers.
C11_ForwardStep ==
    \A t \in Threads :
        /\ (th[t].pc = "ci_publish" /\ th'[t] # th[t]) =>
              LET d == th[t].all[th[t].current + 1]
              IN  IF d.width # 0 /\ d.height # 0
                     THEN /\ th'[t].pc = "ci_uinput_res"
                          /\ th'[t].bounds = <<d.origin[1], d.origin[1] + d.width,
                                               d.origin[2], d.origin[2] + d.height>>
                     ELSE /\ th'[t].pc \notin UinputPcs
                          /\ uinput' = uinput
        /\ (th[t].pc = "ci_uinput_res" /\ th'[t] # th[t]) =>
              /\ Len(uinput') = Len(uinput) + 1
              /\ uinput'[Len(uinput')].call = "set_uinput_resolution"
              /\ uinput'[Len(uinput')].args = th[t].bounds

\* C11: set_uinput_resolution is only ever called with a rectangle that has
\* min # max on both axes; a current display of width 0 or height 0 leads to
\* no call of set_uinput_resolution or set_uinput, one with non-zero width and
\* height to set_uinput_resolution(x, x + width, y, y + height).
C11_NonDegenerateOnly ==
    /\ [](/\ \A i \in UinputCalls("set_uinput_resolution") :
               uinput[i].args[1] # uinput[i].args[2] /\ uinput[i].args[3] # uinput[i].args[4]
          /\ \A t \in Threads :
               th[t].pc \in UinputPcs =>
                  th[t].bounds[1] # th[t].bounds[2] /\ th[t].bounds[3] # th[t].bounds[4]
          /\ Cardinality(UinputCalls("set_uinput"))
                <= Cardinality(UinputCalls("set_uinput_resolution")))
    /\ [][C11_ForwardStep]_vars

\* C11 witness: one cache was built on a display of height 0 and nothing was
\* forwarded, the next on the display at (1, 2) of size 2x1 and
\* set_uinput_resolution(1, 3, 2, 3) was called.
C11_Witness ==
    /\ Len(boxes) = 2
    /\ cap = 2
    /\ boxes[2].current = 0
    /\ Len(uinput) >= 1
    /\ uinput[1] = [call |-> "set_uinput_resolution", args |-> <<1, 3, 2, 3>>]
    /\ Cardinality(UinputCalls("set_uinput_resolution")) = 1

\* C12 (step): whatever set_uinput_resolution answers, check_init goes on to
\* set_uinput; whatever set_uinput answers, check_init returns Ok (inside
\* get_displays: goes on to the read of line 168); neither step touches the cache.
C12_SwallowStep ==
    \A t \in Threads :
        /\ (th[t].pc = "ci_uinput_res" /\ th'[t] # th[t]) =>
              /\ th'[t].pc = "ci_uinput"
              /\ UNCHANGED <<cap, boxes, devs, ret>>
        /\ (th[t].pc = "ci_uinput" /\ th'[t] # th[t]) =>
              /\ UNCHANGED <<cap, boxes, devs>>
              /\ uinput'[Len(uinput')].call = "set_uinput"
              /\ IF th[t].op = "get_displays"
                    THEN th'[t].pc = "acc_rlock"
                    ELSE th'[t].pc = "idle" /\ ret'[t].status = "Ok"

\* C12: a failure of set_uinput_resolution or of set_uinput never makes
\* check_init fail and never undoes the initialization: check_init fails only
\* with the error of the enumeration, the selection or the construction, and
\* every set_uinput_resolution call, failed or not, is followed by the
\* set_uinput call of the same check_init.
C12_UinputNonFatal ==
    /\ [](/\ \A t \in Threads :
               (ret[t].op = "check_init" /\ ret[t].status = "Err")
                  => ret[t].val \in {"Display::all", "get_current_display_2",
                                     "Failed to create capturer"}
          /\ \A t \in Threads :
               (ret[t].op = "check_init" /\ ret[t].status = "Ok" /\ ret[t].val > 0)
                  => ret[t].via = "init" /\ Len(boxes) >= 1
          /\ Cardinality(UinputCalls("set_uinput_resolution"))
                = Cardinality(UinputCalls("set_uinput"))
                  + Cardinality({t \in Threads : th[t].pc = "ci_uinput"}))
    /\ [][C12_SwallowStep]_vars

\* C12 witness: set_uinput_resolution and set_uinput have both failed,
\* check_init has returned Ok and the cache is present with the state it built.
C12_Witness ==
    /\ uinput = <<[call |-> "set_uinput_resolution", args |-> <<1, 3, 2, 3>>],
                  [call |-> "set_uinput", args |-> <<>>]>>
    /\ cap = 1
    /\ boxes[1].live
    /\ \E t \in Threads :
         /\ ret[t].op = "check_init" /\ ret[t].via = "init"
         /\ ret[t].status = "Ok" /\ ret[t].val = 2

\* C13 as claimed: set_map_err(map_err_scrap) is called exactly once, before
\* any Capturer::new of check_init, and every construction failure that leaves
\* check_init has passed through map_err_scrap.
C13_RegisteredBeforeConstruction ==
    /\ registered <= 1
    /\ (\/ \E t \in Threads : th[t].pc = "ci_publish"
        \/ \E t \in Threads :
              ret[t].status = "Err" /\ ret[t].val = "Failed to create capturer"
        \/ Len(devs) > 0) => registered = 1
    /\ \A t \in Threads :
         (ret[t].status = "Err" /\ ret[t].val = "Failed to create capturer")
            => mapped.called

\* C14: every CapDisplayInfo check_init has published has num = len(rects) =
\* len(displays), primary < num and current < num: rects[current], the lookup
\* of get_capturer, is in range.
C14_PublishedShape ==
    \A a \in 1..Len(boxes) :
        boxes[a].live =>
            /\ boxes[a].num = Len(boxes[a].rects)
            /\ boxes[a].num = Len(boxes[a].displays)
            /\ boxes[a].primary >= 0 /\ boxes[a].primary < boxes[a].num
            /\ boxes[a].current >= 0 /\ boxes[a].current < boxes[a].num
            /\ (boxes[a].current + 1) \in DOMAIN boxes[a].rects

\* C14 witness: a state with two displays, the second one current, is
\* published and get_capturer has looked up its rectangle.
C14_Witness ==
    /\ cap # 0
    /\ boxes[cap].num = 2
    /\ boxes[cap].current = 1
    /\ \E t \in Threads :
         /\ ret[t].op = "get_capturer" /\ ret[t].status = "Ok" /\ ret[t].mem = "live"
         /\ ret[t].addr = cap
         /\ ret[t].val.origin = <<3, 2>>
         /\ ret[t].val.ndisplay = 2

\* C15 (step): a call that leaves check_init from inside the write-locked
\* block (after Display::all, get_current_display_2 or Capturer::new) returns
\* the error of that step, with the cache absent before and after, the lock
\* free, no device alive, nothing forwarded and no second enumeration; a call
\* that finds the cache absent on the re-check enumerates, whatever failed before.
C15_FailStep ==
    \A t \in Threads :
        /\ (th[t].pc \in {"ci_enum", "ci_cur", "ci_new"} /\ th'[t].pc = "idle") =>
              /\ ret'[t].status = "Err"
              /\ ret'[t].op = th[t].op
              /\ ret'[t].val = (CASE th[t].pc = "ci_enum" -> "Display::all"
                                  [] th[t].pc = "ci_cur" -> "get_current_display_2"
                                  [] th[t].pc = "ci_new" -> "Failed to create capturer")
              /\ cap = 0 /\ cap' = 0
              /\ rw' = Unlocked
              /\ UNCHANGED <<boxes, devs, uinput>>
              /\ \A i \in 1..Len(devs') : devs'[i] # "live"
              /\ enumCount' = enumCount + (IF th[t].pc = "ci_enum" THEN 1 ELSE 0)
        /\ (th[t].pc = "ci_recheck" /\ cap = 0 /\ th'[t] # th[t]) =>
              th'[t].pc = "ci_enum"

\* C15: a failure of Display::all, get_current_display_2 or Capturer::new ends
\* that check_init with the error, leaves the cache absent, the write lock
\* released, no device alive and nothing forwarded; a later check_init runs the
\* whole initialization again.
C15_InitFailure ==
    /\ [](\A t \in Threads :
            (ret[t].op \in {"check_init", "get_displays"} /\ ret[t].status = "Err"
               /\ ret[t].via = "init") => rw.writer # t)
    /\ [][C15_FailStep]_vars

\* C15 witness: one check_init has failed in Capturer::new, a later one has
\* enumerated again, constructed the device and published the state.
C15_Witness ==
    /\ fails = 1 /\ enumCount = 2 /\ cap = 1 /\ devs = <<"live">>
    /\ \E t, u \in Threads :
         /\ ret[t].op = "check_init" /\ ret[t].status = "Err"
         /\ ret[t].val = "Failed to create capturer"
         /\ ret[u].op = "check_init" /\ ret[u].status = "Ok" /\ ret[u].via = "init"

\* C16 (step): the releasing step of clear is taken whatever handles are out
\* and changes none of them, nor any frame call in progress; a frame call
\* dereferences its pointer whatever has become of the device, it is never
\* refused.
C16_UncoordinatedStep ==
    \A t \in Threads :
        /\ (th[t].pc = "cl_crit" /\ th'[t] # th[t]) =>
              \A u \in Threads \ {t} : th'[u] = th[u] /\ ret'[u] = ret[u]
        /\ (th[t].pc = "cp_deref" /\ th'[t] # th[t]) =>
              LET p == ret[t].val.capturer
              IN  /\ ret'[t].op = "frame"
                  /\ ret'[t].val = ret[t].val
                  /\ ret'[t].mem = (IF p \notin 1..Len(devs) THEN "null"
                                    ELSE IF devs[p] = "live" THEN "live"
                                    ELSE "freed")

\* C16: a handle read from a present cache designates the device of that
\* cache generation, which is alive exactly until clear releases the
\* generation: clear neither waits for the handle nor changes it, and a frame
\* call on it afterwards runs on the released device.
C16_DanglingHandle ==
    /\ [](\A t \in Threads :
            (HoldsHandle(t) /\ HandleFrom(t) = "live") =>
                /\ ret[t].val.capturer \in 1..Len(devs)
                /\ ret[t].addr \in 1..Len(boxes)
                /\ (devs[ret[t].val.capturer] = "live") <=> boxes[ret[t].addr].live
                /\ (ret[t].op = "frame" /\ ret[t].mem # "live") =>
                      /\ ret[t].mem = "freed"
                      /\ devs[ret[t].val.capturer] = "released"
                      /\ ~boxes[ret[t].addr].live)
    /\ [][C16_UncoordinatedStep]_vars

\* C16 witness: a handle was read from the present cache, clear has released
\* the device, and a frame call on the handle has run on the released device.
C16_Witness ==
    \E t, u \in Threads :
        /\ ret[t].op = "frame" /\ ret[t].from = "live" /\ ret[t].mem = "freed"
        /\ devs[ret[t].val.capturer] = "released"
        /\ ret[u].op = "clear" /\ ret[u].via = "released"

\* the devices that were constructed and not released
LiveDevices ==
    {i \in 1..Len(devs) : devs[i] = "live"}

\* C17: at most one constructed device is alive; outside the window between
\* Capturer::new and the publication (under the write lock) a device is alive
\* exactly when the cache is present, and it is the device of the cache; in
\* that window the only live device is the one being published and the cache
\* is absent; no device is released twice.
C17_OneDevice ==
    /\ Cardinality(LiveDevices) <= 1
    /\ \A i \in 1..Len(devs) : devs[i] \in {"live", "released"}
    /\ IF \E t \in Threads : th[t].pc = "ci_publish"
          THEN /\ cap = 0
               /\ \A t \in Threads :
                    th[t].pc = "ci_publish" => LiveDevices = {th[t].capturer}
          ELSE /\ (LiveDevices # {}) <=> (cap # 0)
               /\ cap # 0 => LiveDevices = {boxes[cap].capturer}
    /\ Cardinality({i \in 1..Len(devs) : devs[i] = "released"}) = releases

\* C17 witness: after check_init, clear and clear again the one device that
\* was constructed is released, once, and the cache is absent.
C17_Witness ==
    /\ cap = 0 /\ devs = <<"released">> /\ releases = 1
    /\ \E t, u \in Threads :
         /\ ret[t].op = "clear" /\ ret[t].via = "released"
         /\ ret[u].op = "clear" /\ ret[u].via = "absent"

\* C18 (step): a call enters the forwarding only in the step that publishes a
\* cache generation, makes each of the two calls once and leaves; the step of
\* a call that finds the cache present, on the fast path or on the re-check,
\* forwards nothing and does not enter the forwarding.
C18_ForwardOnceStep ==
    \A t \in Threads :
        /\ (th[t].pc \notin UinputPcs /\ th'[t].pc \in UinputPcs) =>
              /\ th[t].pc = "ci_publish"
              /\ th'[t].pc = "ci_uinput_res"
              /\ Len(boxes') = Len(boxes) + 1
              /\ cap' = Len(boxes')
              /\ rw'.writer = 0
        /\ (th[t].pc = "ci_uinput_res" /\ th'[t] # th[t]) =>
              th'[t].pc = "ci_uinput" /\ Len(uinput') = Len(uinput) + 1
        /\ (th[t].pc = "ci_uinput" /\ th'[t] # th[t]) =>
              th'[t].pc \notin UinputPcs /\ Len(uinput') = Len(uinput) + 1
        /\ (th[t].pc \notin UinputPcs /\ th'[t] # th[t]) => uinput' = uinput
        /\ (th[t].pc \in {"ci_fast", "ci_recheck"} /\ cap # 0 /\ th'[t] # th[t]) =>
              /\ th'[t].pc \notin UinputPcs
              /\ th'[t].pc \notin InitPcs

\* C18: set_uinput_resolution and set_uinput are called at most once per cache
\* generation, by the check_init call that published it, after the publication
\* and with the lock released; a check_init that finds the cache present never
\* calls them.
C18_ForwardOnce ==
    /\ [](/\ \A t \in Threads :
               th[t].pc \in UinputPcs =>
                  /\ th[t].via = "init"
                  /\ rw.writer # t /\ t \notin rw.readers
          /\ Cardinality(UinputCalls("set_uinput_resolution"))
               + Cardinality({t \in Threads : th[t].pc = "ci_uinput_res"}) <= Len(boxes)
          /\ Cardinality(UinputCalls("set_uinput"))
               + Cardinality({t \in Threads : th[t].pc \in UinputPcs}) <= Len(boxes))
    /\ [][C18_ForwardOnceStep]_vars

\* C18 witness: the call that initialized has forwarded the rectangle, the
\* two calls after it have returned, one of them Ok from the fast path; the
\* collaborator was called once.
C18_Witness ==
    /\ Len(boxes) = 1 /\ cap = 1
    /\ uinput = <<[call |-> "set_uinput_resolution", args |-> <<1, 3, 2, 3>>],
                  [call |-> "set_uinput", args |-> <<>>]>>
    /\ ops = 3
    /\ \E t \in Threads :
         ret[t].op = "check_init" /\ ret[t].via = "fast" /\ ret[t].status = "Ok"
    /\ \A t \in Threads : th[t].pc = "idle"

\* C20 as claimed: a get_displays call whose check_init took the non-X11
\* branch and returned Ok (the call went on to the read of line 168) returns
\* Ok with the primary and the displays of a published state, read from a
\* live CapDisplayInfo.
C20_GetDisplaysAfterInit ==
    \A t \in Threads :
        (/\ ret[t].op = "get_displays"
         /\ ret[t].via \in {"fast", "recheck", "init"}
         /\ ret[t].mem # "none") =>
            /\ ret[t].status = "Ok"
            /\ ret[t].mem = "live"
            /\ \E all \in Topologies :
                 /\ ret[t].val.displays = DisplayInfos(all)
                 /\ ret[t].val.primary \in PrimaryChoices(all)

\* the positions at which a thread asks for the cache lock
CacheLockRequests ==
    {"ci_rlock", "ci_wlock", "cl_wlock", "acc_rlock"}

\* thread t holds the cache lock, as writer or as reader
HoldsCacheLock(t) ==
    rw.writer = t \/ t \in rw.readers

\* C19 (state): a thread asks for the cache lock holding neither lock (the
\* read guard of the fast path is gone when the write lock is requested); the
\* holder of the counter lock is inside try_log, where it asks for no lock, so
\* the two locks are only ever taken in the order cache, counter; and whenever
\* a call is in progress, some call in progress can take a step.
C19_LockOrder ==
    /\ \A t \in Threads :
         th[t].pc \in CacheLockRequests => ~HoldsCacheLock(t) /\ logLock # t
    /\ \A t \in Threads : logLock = t <=> th[t].pc = "tl_body"
    /\ \A t \in Threads : th[t].pc = "idle" => ~HoldsCacheLock(t) /\ logLock # t
    /\ (\E t \in Threads : th[t].pc # "idle") =>
          \E t \in Threads : ENABLED Continue(t)

\* C19: no interleaving of check_init, clear, the accessors and
\* map_err_scrap/try_log deadlocks: the locks are taken in the order cache,
\* counter, the fast path's read guard is released before the write lock is
\* requested, and every call that was started eventually returns.
C19_NoDeadlock ==
    /\ []C19_LockOrder
    /\ \A t \in Threads : (th[t].pc # "idle") ~> (th[t].pc = "idle")

\* C19 witness: a check_init whose Capturer::new failed waits in try_log for
\* the counter lock with the cache write lock held, while another thread holds
\* the counter lock in a map_err_scrap call of its own.
C19_Witness ==
    \E t, u \in Threads :
        /\ th[t].op = "check_init" /\ th[t].pc = "tl_lock" /\ rw.writer = t
        /\ th[u].op = "map_err_scrap" /\ th[u].pc = "tl_body" /\ logLock = u

====
